---- MODULE Spec2Model ----
(***************************************************************************)
(* Model of xml_to_csv.py: the converter xml_to_csv(xml_file_path,          *)
(* csv_file_path) and the directory driver main().                          *)
(*                                                                          *)
(* An XML document is a record [kind, nodes].  kind is "xml" for a          *)
(* well-formed document, "malformed" for a file ET.parse rejects with       *)
(* ParseError and "directory" for a directory entry whose name matches the  *)
(* glob (ET.parse raises IsADirectoryError, an OSError).  nodes lists the   *)
(* elements in document order; each element carries its tag, its text       *)
(* (None when the element has no text) and the index of its parent (0 for   *)
(* the root).  File names are sequences of characters.                      *)
(***************************************************************************)
EXTENDS Naturals, Sequences, FiniteSets, TLC

VARIABLES
    xmlDirExists,   \* script_dir/xml exists
    csvDirExists,   \* script_dir/xml/csv exists
    files,          \* entries of the xml directory: name -> document
    csvFiles,       \* files of the csv directory: name -> lines written
    ioFaults,       \* whether the filesystem may fail an operation in this run
    pc,             \* position of main: "start", "loop", "done", "crashed"
    xml_files,      \* main's list of globbed files
    idx,            \* number of loop iterations of main completed
    log,            \* console output, one record per reported event
    calls           \* trace of the xml_to_csv invocations and what each wrote

vars == <<xmlDirExists, csvDirExists, files, csvFiles, ioFaults, pc, xml_files,
          idx, log, calls>>

----------------------------------------------------------------------------
(* Bounds and input alphabets *)

MaxNodes == 4

None == "<None>"
Tags == {"Sample", "A", "B"}
Texts == {None, "a", "b"}

----------------------------------------------------------------------------
(* Generic helpers *)

Range(s) == {s[i] : i \in DOMAIN s}

Indices(n) == [k \in 1..n |-> k]

Last(s) == s[Len(s)]

EmptyMap == [x \in {} |-> x]

Perms(S) ==
    {s \in [1..Cardinality(S) -> S] : \A i, j \in DOMAIN s : s[i] = s[j] => i = j}

----------------------------------------------------------------------------
(* Documents *)

RECURSIVE Ancestors(_, _)
Ancestors(nodes, i) ==
    IF i = 0 THEN {} ELSE {i} \cup Ancestors(nodes, nodes[i].parent)

\* The shapes of the element trees of exactly n elements listed in document
\* order, as parent vectors: the parent of an appended element is the last
\* element or one of its ancestors.
RECURSIVE ShapesOfSize(_)
ShapesOfSize(n) ==
    IF n = 1 THEN {<<[parent |-> 0]>>}
    ELSE UNION {{Append(d, [parent |-> p]) : p \in Ancestors(d, Len(d))} :
                d \in ShapesOfSize(n - 1)}

Shapes == UNION {ShapesOfSize(n) : n \in 1..MaxNodes}

\* the element tree of a shape, with the given tags and texts
Tree(shape, tags, texts) ==
    [i \in 1..Len(shape) |->
        [tag |-> tags[i], text |-> texts[i], parent |-> shape[i].parent]]

XmlDoc(nodes) == [kind |-> "xml", nodes |-> nodes]
Malformed == [kind |-> "malformed", nodes |-> <<>>]
Directory == [kind |-> "directory", nodes |-> <<>>]

Elem(tag, text, parent) == [tag |-> tag, text |-> text, parent |-> parent]

\* <A/>
DocNoSample == XmlDoc(<<Elem("A", None, 0)>>)
\* <A><Sample><A>a</A></Sample></A>
DocA == XmlDoc(<<Elem("A", None, 0), Elem("Sample", None, 1), Elem("A", "a", 2)>>)
\* <A><Sample><B>a</B><B/></Sample></A>
DocB == XmlDoc(<<Elem("A", None, 0), Elem("Sample", None, 1), Elem("B", "a", 2),
                 Elem("B", None, 2)>>)

FileDocs == {Malformed, Directory, DocNoSample, DocA, DocB}

----------------------------------------------------------------------------
(* File names *)

NameA      == <<"a", ".", "x", "m", "l">>
NameDot    == <<".", "x", "m", "l">>
NameDotDot == <<".", "x", "m", "l", ".", "x", "m", "l">>
NameTxt    == <<"a", ".", "t", "x", "t">>

CandNames == {NameA, NameDot, NameDotDot, NameTxt}

DotXml == <<".", "x", "m", "l">>
DotCsv == <<".", "c", "s", "v">>

\* xml_dir.glob('*.xml'): the name ends in ".xml"
GlobMatch(name) ==
    /\ Len(name) >= Len(DotXml)
    /\ SubSeq(name, Len(name) - Len(DotXml) + 1, Len(name)) = DotXml

\* str.rfind('.'), 1-based; 0 when there is no dot
RFindDot(name) ==
    LET P == {i \in DOMAIN name : name[i] = "."}
    IN  IF P = {} THEN 0 ELSE CHOOSE i \in P : \A j \in P : j <= i

\* pathlib's PurePath.stem: the name minus its last suffix; a dot that starts
\* or ends the name starts no suffix
Stem(name) ==
    LET p == RFindDot(name)
    IN  IF p > 1 /\ p < Len(name) THEN SubSeq(name, 1, p - 1) ELSE name

CsvFilename(name) == Stem(name) \o DotCsv

----------------------------------------------------------------------------
(* xml_to_csv: the element tree *)

\* iterating an element yields its direct children in document order
Children(nodes, i) ==
    SelectSeq(Indices(Len(nodes)), LAMBDA j : nodes[j].parent = i)

\* Element.iter(): the element itself, then its subtrees, in document order
RECURSIVE Iter(_, _)
RECURSIVE IterAll(_, _)
Iter(nodes, i) == <<i>> \o IterAll(nodes, Children(nodes, i))
IterAll(nodes, cs) ==
    IF cs = <<>> THEN <<>>
    ELSE Iter(nodes, Head(cs)) \o IterAll(nodes, Tail(cs))

\* root.findall('.//Sample'): the elements of root.iter('Sample') other than
\* root itself
FindAllSamples(nodes) ==
    SelectSeq(Iter(nodes, 1), LAMBDA e : e # 1 /\ nodes[e].tag = "Sample")

\* the emptiness test left out
NoSamplesIgnored(samples) == FALSE

\* if not samples
NoSamples(samples) == samples = <<>>

----------------------------------------------------------------------------
(* xml_to_csv: the column order *)

\* field_names kept from the previous invocation
StaleFieldNames == IF calls = <<>> THEN <<>> ELSE Last(calls).field_names

\* field_names = []
NewFieldNames == <<>>

\* seen_fields never filled
TagSeenNever(tag, field_names) == FALSE

\* child.tag not in seen_fields is negated here; seen_fields holds exactly
\* the tags of field_names
TagSeen(tag, field_names) == tag \in Range(field_names)

\* for child in sample: append the tags not seen yet
RECURSIVE AddChildTags(_, _, _)
AddChildTags(nodes, cs, field_names) ==
    IF cs = <<>> THEN field_names
    ELSE AddChildTags(nodes, Tail(cs),
             IF TagSeen(nodes[Head(cs)].tag, field_names)
             THEN field_names
             ELSE Append(field_names, nodes[Head(cs)].tag))

\* the samples after the first left out
NoOtherSamples(samples) == <<>>

\* samples[1:]
OtherSamples(samples) == SubSeq(samples, 2, Len(samples))

RECURSIVE AddSamples(_, _, _)
AddSamples(nodes, ss, field_names) ==
    IF ss = <<>> THEN field_names
    ELSE AddSamples(nodes, Tail(ss),
             AddChildTags(nodes, Children(nodes, Head(ss)), field_names))

\* the first sample's children, if samples; then the other samples'
FieldNames(nodes, samples) ==
    AddSamples(nodes, OtherSamples(samples),
        IF samples # <<>>
        THEN AddChildTags(nodes, Children(nodes, samples[1]), NewFieldNames)
        ELSE NewFieldNames)

----------------------------------------------------------------------------
(* xml_to_csv: the rows *)

\* child.text if child.text is not None else ''
TextValue(text) == IF text = None THEN "" ELSE text

\* a value already in the row kept
RowSetKeepFirst(row, key, value) == row @@ (key :> value)

\* row[child.tag] = value
RowSet(row, key, value) == (key :> value) @@ row

RECURSIVE BuildRow(_, _, _)
BuildRow(nodes, cs, row) ==
    IF cs = <<>> THEN row
    ELSE BuildRow(nodes, Tail(cs),
             RowSet(row, nodes[Head(cs)].tag, TextValue(nodes[Head(cs)].text)))

SampleRow(nodes, s) == BuildRow(nodes, Children(nodes, s), EmptyMap)

\* csv.DictWriter (extrasaction='raise'): the keys of the row that are no
\* field name make writerow raise ValueError
ExtraKeys(row, fieldnames) == DOMAIN row \ Range(fieldnames)

\* csv.DictWriter (restval=''): the cells of a row, in fieldnames order
DictToList(row, fieldnames) ==
    [i \in 1..Len(fieldnames) |->
        IF fieldnames[i] \in DOMAIN row THEN row[fieldnames[i]] ELSE ""]

\* index of the first sample whose writerow raises ValueError, 0 if none
FirstBadRow(nodes, samples, fieldnames) ==
    LET B == {k \in DOMAIN samples :
                 ExtraKeys(SampleRow(nodes, samples[k]), fieldnames) # {}}
    IN  IF B = {} THEN 0 ELSE CHOOSE k \in B : \A j \in B : k <= j

\* the header line followed by one line per sample
CsvLines(nodes, samples, fieldnames) ==
    <<fieldnames>> \o
    [k \in 1..Len(samples) |-> DictToList(SampleRow(nodes, samples[k]), fieldnames)]

----------------------------------------------------------------------------
(* xml_to_csv: one invocation *)

\* no except Exception clause
HandlerWithoutGeneric(exc) ==
    IF exc = "ParseError" THEN "ErrorParsing" ELSE "Propagate"

\* the ParseError raised again
HandlerReraisesParse(exc) ==
    IF exc = "ParseError" THEN "Propagate" ELSE "ErrorProcessing"

\* the except clauses: what is done with an exception raised in the try body
ExceptHandler(exc) ==
    IF exc = "ParseError" THEN "ErrorParsing" ELSE "ErrorProcessing"

Result(exc, warned, opened, field_names, nsamples, lines) ==
    [exc |-> exc, warned |-> warned, opened |-> opened,
     field_names |-> field_names, nsamples |-> nsamples, lines |-> lines]

\* The try body on document doc.  openOk: open(csv_file_path, 'w') succeeds;
\* limit: the number of lines the file accepts before a write fails.
TryBody(doc, openOk, limit) ==
    IF doc.kind = "directory" THEN Result("OSError", FALSE, FALSE, <<>>, 0, <<>>)
    ELSE IF doc.kind = "malformed"
    THEN Result("ParseError", FALSE, FALSE, <<>>, 0, <<>>)
    ELSE
    LET nodes == doc.nodes
        samples == FindAllSamples(nodes)
    IN  IF NoSamples(samples) THEN Result("none", TRUE, FALSE, <<>>, 0, <<>>)
        ELSE
        LET field_names == FieldNames(nodes, samples)
            bad == FirstBadRow(nodes, samples, field_names)
            all == CsvLines(nodes, samples, field_names)
            writable == IF bad = 0 THEN Len(all) ELSE bad
        IN  IF ~openOk
            THEN Result("OSError", FALSE, FALSE, field_names, Len(samples), <<>>)
            ELSE IF limit < writable
            THEN Result("OSError", FALSE, TRUE, field_names, Len(samples),
                        SubSeq(all, 1, limit))
            ELSE IF bad # 0
            THEN Result("ValueError", FALSE, TRUE, field_names, Len(samples),
                        SubSeq(all, 1, writable))
            ELSE Result("none", FALSE, TRUE, field_names, Len(samples), all)

\* number of lines a fault-free conversion of doc writes
TotalLines(doc) ==
    IF doc.kind = "xml" THEN 1 + Len(FindAllSamples(doc.nodes)) ELSE 0

\* every way one invocation on doc can end, given what the filesystem may do
Outcomes(doc, faulty) ==
    {TryBody(doc, openOk, limit) :
        openOk \in (IF faulty THEN BOOLEAN ELSE {TRUE}),
        limit \in (IF faulty THEN 0..TotalLines(doc) ELSE {TotalLines(doc)})}

Msg(m, file, nsamples, ncolumns) ==
    [msg |-> m, file |-> file, samples |-> nsamples, columns |-> ncolumns]

\* what the invocation ends with: "Propagate" when the exception leaves
\* xml_to_csv, else the kind of message printed
Ending(r) ==
    IF r.exc # "none" THEN ExceptHandler(r.exc)
    ELSE IF r.warned THEN "Warning" ELSE "Success"

\* the console lines of one invocation
Printed(xml, r) ==
    IF Ending(r) = "Propagate" THEN <<>>
    ELSE IF Ending(r) = "Success"
    THEN <<Msg("Success", xml, r.nsamples, Len(r.field_names))>>
    ELSE <<Msg(Ending(r), xml, 0, 0)>>

\* open(csv_file_path, 'w') creates or truncates the file; what was written
\* before an exception stays
WriteFile(dir, csv, lines) == (csv :> lines) @@ dir

\* xml_to_csv(xml_file_path, csv_file_path) ending as r; before is what the
\* caller printed ahead of the call
XmlToCsv(xml, csv, r, before) ==
    /\ log' = log \o before \o Printed(xml, r)
    /\ csvFiles' = IF r.opened THEN WriteFile(csvFiles, csv, r.lines) ELSE csvFiles
    /\ calls' = Append(calls, [xml |-> xml, csv |-> csv, doc |-> files[xml],
                               ending |-> Ending(r), exc |-> r.exc,
                               opened |-> r.opened,
                               field_names |-> r.field_names, lines |-> r.lines])

----------------------------------------------------------------------------
(* main *)

\* csv_dir.mkdir(parents=True, exist_ok=True): the directories afterwards.
\* It creates xml_dir, the parent, too.  A failure raises out of main; it may
\* come after the parent was created.
MkdirOutcomes(faulty) ==
    {[ok |-> TRUE, xml |-> TRUE, csv |-> TRUE]}
    \cup (IF faulty
          THEN {[ok |-> FALSE, xml |-> x, csv |-> csvDirExists] :
                   x \in {xmlDirExists, TRUE}}
          ELSE {})

\* list(xml_dir.glob('*.xml')): the matching entries, in the order the
\* directory listing gives
GlobResults == Perms({n \in DOMAIN files : GlobMatch(n)})

\* main up to the loop
MainStart ==
    /\ pc = "start"
    /\ \E m \in MkdirOutcomes(ioFaults), listing \in GlobResults :
          /\ xmlDirExists' = m.xml
          /\ csvDirExists' = m.csv
          /\ IF ~m.ok
             THEN /\ pc' = "crashed"
                  /\ UNCHANGED <<xml_files, log>>
             ELSE IF ~m.xml
             THEN /\ pc' = "done"
                  /\ log' = Append(log, Msg("ErrorNoXmlDir", <<>>, 0, 0))
                  /\ UNCHANGED xml_files
             ELSE IF listing = <<>>
             THEN /\ pc' = "done"
                  /\ log' = Append(log, Msg("NoXmlFiles", <<>>, 0, 0))
                  /\ xml_files' = listing
             ELSE /\ pc' = "loop"
                  /\ log' = Append(log, Msg("Found", <<>>, Len(listing), 0))
                  /\ xml_files' = listing
    /\ UNCHANGED <<files, csvFiles, ioFaults, idx, calls>>

\* one iteration of: for xml_file in xml_files
MainLoop ==
    /\ pc = "loop"
    /\ idx < Len(xml_files)
    /\ LET xml_file == xml_files[idx + 1]
           csv_filename == CsvFilename(xml_file)
       IN  \E r \in Outcomes(files[xml_file], ioFaults) :
              /\ XmlToCsv(xml_file, csv_filename, r,
                          <<Msg("Processing", xml_file, 0, 0)>>)
              /\ pc' = IF Ending(r) = "Propagate" THEN "crashed"
                       ELSE IF idx + 1 = Len(xml_files) THEN "done" ELSE "loop"
    /\ idx' = idx + 1
    /\ UNCHANGED <<xmlDirExists, csvDirExists, files, ioFaults, xml_files>>

Next == MainStart \/ MainLoop

\* the xml directory holds any of the candidate entries; an entry the glob
\* does not match is never read
DirContents ==
    UNION {{f \in [S -> FileDocs] : \A n \in S : ~GlobMatch(n) => f[n] = Malformed} :
           S \in SUBSET CandNames}

Init ==
    /\ xmlDirExists \in BOOLEAN
    /\ csvDirExists \in (IF xmlDirExists THEN BOOLEAN ELSE {FALSE})
    /\ files \in (IF xmlDirExists THEN DirContents ELSE {EmptyMap})
    /\ csvFiles = EmptyMap
    /\ ioFaults \in BOOLEAN
    /\ pc = "start"
    /\ xml_files = <<>>
    /\ idx = 0
    /\ log = <<>>
    /\ calls = <<>>

Spec == Init /\ [][Next]_vars

\* main on a directory holding the single file a.xml, a well-formed document
\* of at most MaxNodes elements, on a filesystem that does not fail
InitConv ==
    /\ xmlDirExists = TRUE
    /\ csvDirExists = FALSE
    /\ \E shape \in Shapes :
          \E tags \in [DOMAIN shape -> Tags], texts \in [DOMAIN shape -> Texts] :
             files = (NameA :> XmlDoc(Tree(shape, tags, texts)))
    /\ csvFiles = EmptyMap
    /\ ioFaults = FALSE
    /\ pc = "start"
    /\ xml_files = <<>>
    /\ idx = 0
    /\ log = <<>>
    /\ calls = <<>>

SpecConv == InitConv /\ [][Next]_vars

----------------------------------------------------------------------------
(* Vocabulary of the properties *)

\* every element named Sample, the root included
SampleElements(nodes) == {i \in DOMAIN nodes : nodes[i].tag = "Sample"}

\* the direct children of element s that carry the tag
ChildrenWithTag(nodes, s, tag) ==
    {j \in DOMAIN nodes : nodes[j].parent = s /\ nodes[j].tag = tag}

Max(S) == CHOOSE i \in S : \A j \in S : j <= i
Min(S) == CHOOSE i \in S : \A j \in S : i <= j

\* the tags of the direct children of the samples, sample after sample
RECURSIVE ChildTagSeq(_, _)
ChildTagSeq(nodes, ss) ==
    IF ss = <<>> THEN <<>>
    ELSE [k \in 1..Len(Children(nodes, Head(ss))) |->
             nodes[Children(nodes, Head(ss))[k]].tag]
         \o ChildTagSeq(nodes, Tail(ss))

FirstPos(seq, x) == Min({i \in DOMAIN seq : seq[i] = x})

\* the invocations that converted a document and wrote it out in full
Converted == {c \in Range(calls) : c.ending = "Success"}

\* the samples the converter collected in the document of invocation c
SamplesOf(c) == FindAllSamples(c.doc.nodes)

\* the data rows invocation c wrote
DataRows(c) == IF c.lines = <<>> THEN <<>> ELSE Tail(c.lines)

----------------------------------------------------------------------------
(* C1 *)

\* C1: for a well-formed document the converter writes exactly one data row
\* per Sample element of the tree, the root included, in document order.
C1_RowPerSampleElement ==
    \A c \in Range(calls) :
        c.doc.kind = "xml" =>
            Len(DataRows(c)) = Cardinality(SampleElements(c.doc.nodes))

----------------------------------------------------------------------------
(* C2 *)

\* C2: the header lists the distinct direct-child tags of the collected
\* samples, each once, ordered by first occurrence over the samples in
\* document order.
C2_HeaderFirstOccurrence ==
    \A c \in Converted :
        LET h == c.lines[1]
            flat == ChildTagSeq(c.doc.nodes, SamplesOf(c))
        IN  /\ \A i, j \in DOMAIN h : h[i] = h[j] => i = j
            /\ Range(h) = Range(flat)
            /\ \A i, j \in DOMAIN h :
                  i < j => FirstPos(flat, h[i]) < FirstPos(flat, h[j])

\* a later sample introduced a tag the first sample does not have, and the
\* first sample has fields of its own
C2_Witness ==
    \E c \in Converted :
        LET nodes == c.doc.nodes
            ss == SamplesOf(c)
        IN  /\ Len(ss) >= 2
            /\ Children(nodes, ss[1]) # <<>>
            /\ \E k \in 2..Len(ss) : \E j \in Range(Children(nodes, ss[k])) :
                  /\ ChildrenWithTag(nodes, ss[1], nodes[j].tag) = {}
                  /\ Last(c.lines[1]) = nodes[j].tag

----------------------------------------------------------------------------
(* C3 *)

\* C3: every collected sample gets a row with exactly one cell per header
\* column; the cell is empty when the sample has no child of that tag or the
\* child's text is None; no sample has a child tag outside the header, so no
\* writerow fails on an undeclared column.
C3_EveryColumnFilled ==
    \A c \in Range(calls) :
        (c.doc.kind = "xml" /\ SamplesOf(c) # <<>>) =>
            LET nodes == c.doc.nodes
                ss == SamplesOf(c)
                h == c.lines[1]
            IN  /\ c.exc = "none"
                /\ Len(DataRows(c)) = Len(ss)
                /\ \A k \in DOMAIN ss :
                      /\ Len(DataRows(c)[k]) = Len(h)
                      /\ \A j \in Range(Children(nodes, ss[k])) :
                            nodes[j].tag \in Range(h)
                      /\ \A col \in DOMAIN h :
                            LET C == ChildrenWithTag(nodes, ss[k], h[col])
                            IN  (C = {} \/ nodes[Max(C)].text = None)
                                    => DataRows(c)[k][col] = ""

\* a sample lacks a column another sample introduced, and one has a child
\* without text
C3_Witness ==
    \E c \in Converted :
        LET nodes == c.doc.nodes
            ss == SamplesOf(c)
            h == c.lines[1]
        IN  \E k \in DOMAIN ss, col \in DOMAIN h :
               /\ ChildrenWithTag(nodes, ss[k], h[col]) = {}
               /\ DataRows(c)[k][col] = ""
               /\ \E col2 \in DOMAIN h :
                     /\ DataRows(c)[k][col2] = ""
                     /\ ChildrenWithTag(nodes, ss[k], h[col2]) # {}

----------------------------------------------------------------------------
(* C4 *)

\* C4: when a sample has several direct children of one tag, its cell for
\* that tag is the text of the last of them, empty if that text is None.
C4_LastChildWins ==
    \A c \in Converted :
        LET nodes == c.doc.nodes
            ss == SamplesOf(c)
            h == c.lines[1]
        IN  \A k \in DOMAIN ss, col \in DOMAIN h :
               LET C == ChildrenWithTag(nodes, ss[k], h[col])
               IN  Cardinality(C) >= 2 =>
                      DataRows(c)[k][col] =
                          (IF nodes[Max(C)].text = None THEN ""
                           ELSE nodes[Max(C)].text)

\* a sample with two children of one tag and texts "a" then "b"
C4_Witness ==
    \E c \in Converted :
        LET nodes == c.doc.nodes
            ss == SamplesOf(c)
            h == c.lines[1]
        IN  \E k \in DOMAIN ss, col \in DOMAIN h :
               LET C == ChildrenWithTag(nodes, ss[k], h[col])
               IN  /\ Cardinality(C) >= 2
                   /\ nodes[Min(C)].text = "a"
                   /\ nodes[Max(C)].text = "b"
                   /\ DataRows(c)[k][col] = "b"

----------------------------------------------------------------------------
(* C5 *)

\* the *.xml entries of the input directory
Discovered == {n \in DOMAIN files : GlobMatch(n)}

Reported(m, file) == \E i \in DOMAIN log : log[i].msg = m /\ log[i].file = file

\* C5: over a batch of discovered files, the files are passed to the
\* converter one after the other, each once; an invocation that fails is
\* reported and never ends the run; every invocation whose document has
\* samples and meets no filesystem failure writes the full CSV of its
\* document, whatever happened to the files around it; while a file is left
\* the loop can go on, and the run ends only after the last file.
C5_FailSoftBatch ==
    /\ pc \in {"loop", "done"} /\ xml_files # <<>> =>
          /\ Range(xml_files) = Discovered
          /\ Len(xml_files) = Cardinality(Discovered)
    /\ Len(calls) = idx
    /\ Len(calls) <= Len(xml_files)
    /\ \A i \in DOMAIN calls :
          /\ calls[i].xml = xml_files[i]
          /\ Reported("Processing", calls[i].xml)
          /\ calls[i].doc.kind = "malformed" =>
                Reported("ErrorParsing", calls[i].xml)
          /\ (calls[i].doc.kind = "directory" \/ calls[i].exc = "OSError") =>
                Reported("ErrorProcessing", calls[i].xml)
          /\ (calls[i].doc.kind = "xml" /\ SamplesOf(calls[i]) # <<>>
                 /\ calls[i].exc = "none") =>
                /\ calls[i].opened
                /\ calls[i].lines =
                      CsvLines(calls[i].doc.nodes, SamplesOf(calls[i]),
                               FieldNames(calls[i].doc.nodes, SamplesOf(calls[i])))
                /\ Reported("Success", calls[i].xml)
    /\ pc = "crashed" => calls = <<>>
    /\ pc = "loop" => idx < Len(xml_files) /\ ENABLED MainLoop
    /\ (pc = "done" /\ xml_files # <<>>) => Len(calls) = Len(xml_files)

\* a finished run over three files: the second malformed, the first and the
\* third converted
C5_Witness ==
    /\ pc = "done"
    /\ Len(calls) = 3
    /\ calls[1].ending = "Success"
    /\ calls[2].ending = "ErrorParsing"
    /\ calls[3].ending = "Success"
    /\ calls[1].csv # calls[3].csv
    /\ csvFiles[calls[1].csv] = calls[1].lines
    /\ csvFiles[calls[3].csv] = calls[3].lines

----------------------------------------------------------------------------
(* C6 *)

\* C6: when the input directory does not exist as main starts, main ends
\* having reported the missing input directory and processed no file.
C6_MissingDirReported ==
    [][(pc = "start" /\ ~xmlDirExists /\ pc' = "done") =>
          /\ log' # <<>>
          /\ Last(log').msg = "ErrorNoXmlDir"
          /\ calls' = <<>>]_vars

----------------------------------------------------------------------------
(* C7 *)

\* the document is malformed XML, or well-formed without any Sample element
Unconvertible(doc) ==
    \/ doc.kind = "malformed"
    \/ doc.kind = "xml" /\ SampleElements(doc.nodes) = {}

\* C7: an invocation on a malformed document, or on a well-formed one without
\* any Sample element, leaves the output directory as it was, reports the
\* parse error respectively the warning, and returns to the loop.
C7_NoOutputWhenUnconvertible ==
    [][(pc = "loop" /\ idx < Len(xml_files)
           /\ Unconvertible(files[xml_files[idx + 1]])) =>
          /\ csvFiles' = csvFiles
          /\ csvDirExists' = csvDirExists
          /\ pc' \in {"loop", "done"}
          /\ Last(log') =
                Msg(IF files[xml_files[idx + 1]].kind = "malformed"
                    THEN "ErrorParsing" ELSE "Warning",
                    xml_files[idx + 1], 0, 0)]_vars

\* after a parse error and a warning, one of them at an output path that
\* held a file already
C7_Witness ==
    /\ \E i \in DOMAIN calls : calls[i].ending = "Warning"
    /\ \E i \in DOMAIN calls :
          /\ calls[i].ending = "ErrorParsing"
          /\ calls[i].csv \in DOMAIN csvFiles
          /\ \E j \in 1..(i - 1) :
                calls[j].csv = calls[i].csv /\ csvFiles[calls[i].csv] = calls[j].lines

----------------------------------------------------------------------------
(* C8 *)

\* C8: after a run that started with an empty output directory, the output
\* directory holds the .csv of an input file if and only if the conversion of
\* that file completed successfully.
C8_OutputIffSuccess ==
    pc = "done" =>
        \A i \in DOMAIN calls :
            (calls[i].csv \in DOMAIN csvFiles) <=> (calls[i].ending = "Success")

\* C8 as amended: the output directory holds exactly the files <stem>.csv of
\* the inputs whose invocation opened its output: those converted
\* successfully and those that failed after the output was opened.  Each
\* holds what the last invocation that opened it wrote.  An invocation on a
\* malformed or unreadable input, or one that found no sample, opens none.
C8_OutputIffOpened ==
    /\ DOMAIN csvFiles =
          {CsvFilename(calls[i].xml) : i \in {j \in DOMAIN calls : calls[j].opened}}
    /\ \A x \in DOMAIN csvFiles :
          LET W == {j \in DOMAIN calls :
                       calls[j].opened /\ CsvFilename(calls[j].xml) = x}
          IN  csvFiles[x] = calls[Max(W)].lines
    /\ \A i \in DOMAIN calls :
          /\ calls[i].ending = "Success" => calls[i].opened
          /\ calls[i].ending \in {"ErrorParsing", "Warning"} => ~calls[i].opened
          /\ (calls[i].doc.kind # "xml" \/ SamplesOf(calls[i]) = <<>>) =>
                ~calls[i].opened
          /\ (calls[i].opened /\ calls[i].ending # "Success") =>
                calls[i].ending = "ErrorProcessing"

\* a finished run with a conversion that failed after opening its output,
\* whose partial file is left, beside a success and a warning
C8_Witness ==
    /\ pc = "done"
    /\ \E i \in DOMAIN calls :
          /\ calls[i].ending = "ErrorProcessing"
          /\ calls[i].opened
          /\ csvFiles[calls[i].csv] = calls[i].lines
    /\ \E i \in DOMAIN calls : calls[i].ending = "Success"
    /\ \E i \in DOMAIN calls : calls[i].ending = "Warning"

----------------------------------------------------------------------------
(* C9 *)

\* C9: two invocations on the same document that both complete write the
\* same header and the same rows, whatever was converted before or between
\* them.
C9_SameDocumentSameCsv ==
    \A i, j \in DOMAIN calls :
        (calls[i].doc = calls[j].doc /\ calls[i].doc.kind = "xml") =>
            /\ (calls[i].opened /\ calls[j].opened) =>
                  calls[i].field_names = calls[j].field_names
            /\ (calls[i].ending = "Success" /\ calls[j].ending = "Success") =>
                  calls[i].lines = calls[j].lines
            /\ (calls[i].exc = "none" /\ calls[j].exc = "none") =>
                  calls[i].ending = calls[j].ending

\* the same document converted first and third, another document with
\* another header converted between them
C9_Witness ==
    /\ Len(calls) = 3
    /\ calls[1].doc = calls[3].doc
    /\ calls[1].ending = "Success"
    /\ calls[2].ending = "Success"
    /\ calls[3].ending = "Success"
    /\ calls[2].lines[1] # calls[1].lines[1]
    /\ calls[3].lines = calls[1].lines

----------------------------------------------------------------------------
(* C10 *)

\* C10: distinct files of the *.xml listing get distinct output names, and
\* no invocation of a run writes to the output path of another.
C10_OutputNamesInjective ==
    /\ \A m, n \in Range(xml_files) : m # n => CsvFilename(m) # CsvFilename(n)
    /\ \A i, j \in DOMAIN calls : i # j => calls[i].csv # calls[j].csv

====
